---- MODULE Spec2Model ----
(***************************************************************************)
(* A state-machine model of the AingalLang tree-walking interpreter        *)
(* (src/src/interpreter.py).  The interpreter's fields are the variables;  *)
(* the recursion of the visitor is made explicit as a control stack `ctl`  *)
(* (one frame per visit* method that is still running), and the program    *)
(* being interpreted is chosen statement by statement, so that every       *)
(* program within the bounds is covered.                                   *)
(***************************************************************************)
EXTENDS Integers, Sequences, FiniteSets, TLC

(* ---------------------------------------------------------------- bounds *)
\* scopes ever created (the arena of Scope objects, global scope included)
MaxScopes == 4
\* visit* methods in progress at once (depth of the interpreter's recursion)
MaxDepth == 6
\* lines in the output log before a statement that appends may still start
MaxOut == 2
\* statements the interpreted program executes
MaxSteps == 5
\* the largest magnitude of an operand of an expression evaluated on its own
MaxInt == 7
\* the largest magnitude of a matrix entry, and the most rows and columns
MaxEntry == 1
MaxDim == 3

(* ------------------------------------------------------- program alphabet *)
\* the names the program reads, and those it declares and assigns
Names == {"x", "y"}
Assigned == {"x"}
Values == {1, 2}
FuncNames == {"f"}
ParamLists == {<<>>, <<"x">>, <<"x", "y">>, <<"x", "x">>}
ArgLists == {<<>>, <<1>>, <<2, 1>>}
Bodies == {"body1", "body2"}
\* the numbers of parent:: markers of a scoped identifier
Levels == {1, 2}

VARIABLES
    scopes,                 \* every Scope object created so far; scopes[1] is global_scope
    current_scope,          \* Interpreter.current_scope (index into scopes)
    functions,              \* Interpreter.functions: name -> [params, body, scope]
    call_stack,             \* Interpreter.call_stack
    skip_next_block_scope,  \* Interpreter.skip_next_block_scope
    output_lines,           \* Interpreter.output_lines
    ctl,                    \* the visit* methods in progress, outermost first
    sig,                    \* what the statement just executed handed to its caller
    ev,                     \* the operation the last step performed, and its outcome
    written,                \* history: the last value each write stored, per scope and name
    captured,               \* history: `written` as it was when each function was declared
    memory,                 \* Interpreter.memory
    calc,                   \* the expression being evaluated on its own: operands and outcome
    fuel                    \* statements the program may still execute

vars == <<scopes, current_scope, functions, call_stack, skip_next_block_scope,
          output_lines, ctl, sig, ev, written, captured, memory, calc, fuel>>

(* ------------------------------------------------------------ value model *)
\* A statement result: Python None, a BreakStatement instance, or a value.
None == [t |-> "none", v |-> 0]
BreakStatement == [t |-> "break", v |-> 0]
Val(v) == [t |-> "val", v |-> v]

\* str(result) as appended by visitProgram, and the f-string of visitStatement
Str(r) == ToString(r.v)
\* (mutant) the new line is put in front of the log
append_line_front(lines, text) == <<text>> \o lines

\* self.output_lines.append(text): the log afterwards
append_line(lines, text) == Append(lines, text)

\* (mutant) the result line is the bare text of the result
ResultLine_Bare(r) == ToString(r.v)

ResultLine(r) == "Result: " \o ToString(r.v)

(* ------------------------------------------------------------------ Scope *)
NoScope == 0
global_scope == 1
EmptyVars == [n \in {} |-> 0]

Scope(parent) == [variables |-> EmptyVars, parameters |-> {}, parent |-> parent]

has_variable(S, s, name) == name \in DOMAIN S[s].variables

\* Scope.set_variable on scope s of the arena S: the arena afterwards
set_variable(S, s, name, value, is_param) ==
    [S EXCEPT ![s] = [variables  |-> (name :> value) @@ S[s].variables,
                      parameters |-> IF is_param THEN S[s].parameters \cup {name}
                                                 ELSE S[s].parameters,
                      parent     |-> S[s].parent]]

RECURSIVE is_parameter(_, _, _)
is_parameter(S, s, name) ==
    IF name \in S[s].parameters THEN TRUE
    ELSE IF S[s].parent # NoScope THEN is_parameter(S, S[s].parent, name)
    ELSE FALSE

\* The scope in which Scope.get_variable finds name starting from s, NoScope
\* when it raises "not found in any scope".
RECURSIVE get_variable_scope(_, _, _)
get_variable_scope(S, s, name) ==
    IF name \in DOMAIN S[s].variables THEN s
    ELSE IF S[s].parent # NoScope THEN get_variable_scope(S, S[s].parent, name)
    ELSE NoScope

get_variable(S, s, name) == S[get_variable_scope(S, s, name)].variables[name]

\* (mutant) one parent link too few is followed
RECURSIVE resolve_scope_short(_, _, _)
resolve_scope_short(S, s, levels) ==
    IF levels <= 1 THEN s
    ELSE IF S[s].parent = NoScope THEN NoScope
    ELSE resolve_scope_short(S, S[s].parent, levels - 1)

\* The scope reached from s by `levels` parent links, NoScope when a parent is
\* missing on the way (resolve_scope_for_assignment, visitScopedIdentifier).
RECURSIVE resolve_scope(_, _, _)
resolve_scope(S, s, levels) ==
    IF levels = 0 THEN s
    ELSE IF S[s].parent = NoScope THEN NoScope
    ELSE resolve_scope(S, S[s].parent, levels - 1)

\* (mutant) only the scope the walk starts at is looked at
variable_exists_in_child_scopes_first(S, cur, scope, name) ==
    IF cur = NoScope \/ cur = scope THEN FALSE
    ELSE has_variable(S, cur, name)

\* _variable_exists_in_child_scopes(scope, name) with the walk starting at cur
RECURSIVE variable_exists_in_child_scopes(_, _, _, _)
variable_exists_in_child_scopes(S, cur, scope, name) ==
    IF cur = NoScope \/ cur = scope THEN FALSE
    ELSE IF has_variable(S, cur, name) THEN TRUE
    ELSE variable_exists_in_child_scopes(S, S[cur].parent, scope, name)

\* (mutant) the reassignment writes the active scope, bound there or not
reassign_scope_current(S, s, name) == s

\* The scope a plain reassignment of name writes (the while loop of the else
\* branch of visitVariableDeclarationOrAssignment), NoScope when none binds it.
RECURSIVE reassign_scope(_, _, _)
reassign_scope(S, s, name) ==
    IF s = NoScope THEN NoScope
    ELSE IF has_variable(S, s, name) THEN s
    ELSE reassign_scope(S, S[s].parent, name)

(* ---------------------------------------------------------- control stack *)
\* kind: the visit* method; scope: the scope it runs its statements in; prev: the
\* local previous_scope of callFunction and (history) the scope that was active
\* when a loop was entered; flag: for a block, whether it pushed a
\* scope of its own, for a call, whether visitStatement made it (a statement
\* call); last (history): what the statement it visited last yielded
Frame(kind, scope, prev, flag) ==
    [kind |-> kind, scope |-> scope, prev |-> prev, flag |-> flag, last |-> None]
Top == ctl[Len(ctl)]
Pop(c) == SubSeq(c, 1, Len(c) - 1)

\* kind: "none" while a statement list is being executed, "result" for a value
\* returned to the visiting method, "return" for a FunctionReturn and "fault"
\* for any other exception on its way up, then "done", "aborted" or
\* "unhandled_return" when the evaluation is over.  hops (history): the methods
\* the exception has left so far; last (history): for the result of a block,
\* what the last statement of the block yielded
Signal(kind, val, err) ==
    [kind |-> kind, val |-> val, err |-> err, hops |-> 0, last |-> None]
NoSig == Signal("none", None, "")
Result(r) == Signal("result", r, "")
Return(r) == Signal("return", r, "")
Fault(e) == Signal("fault", None, e)

\* op: the operation; name: the variable or function it names; at: the scope
\* active when it started; scope: the scope it resolved; val: the value it
\* stored, read or yielded; out: the fault it raised, "" when it raised none;
\* args: the arguments of a call; levels: the parent:: markers of the identifier
\* read; hops, last: those of the signal that ended a call; via: the event
\* before, for the end of a loop and for a declaration, and the name read, for
\* the update of a for loop
Event(op, name, scope, val, out) ==
    [op |-> op, name |-> name, at |-> current_scope, scope |-> scope,
     val |-> val, out |-> out, args |-> <<>>, levels |-> 0, hops |-> 0,
     last |-> None, via |-> ""]
NoEvent == [op |-> "none", name |-> "", at |-> NoScope, scope |-> NoScope,
            val |-> None, out |-> "", args |-> <<>>, levels |-> 0, hops |-> 0,
            last |-> None, via |-> ""]

Running == sig.kind = "none"
\* a statement may start: some statement list or if-body is being executed
InStatement ==
    /\ Running
    /\ Top.kind \in {"prog", "block", "if", "while", "for"}
    /\ fuel > 0
    /\ fuel' = fuel - 1
\* the statement kinds visitStatement dispatches but visitLoopStatements does not
InVisitStatement == InStatement /\ Top.kind \notin {"while", "for"}

\* the history after a write of value to name in scope s
Record(s, name, value) == (<<s, name>> :> value) @@ written

(* ------------------------------------------------------------------- Init *)
\* the interpreter after __init__, about to visit the program
InitInterpreter ==
    /\ scopes = <<Scope(NoScope)>>
    /\ current_scope = global_scope
    /\ functions = [n \in {} |-> 0]
    /\ call_stack = <<>>
    /\ skip_next_block_scope = FALSE
    /\ output_lines = <<>>
    /\ ctl = <<Frame("prog", global_scope, NoScope, FALSE)>>
    /\ sig = NoSig
    /\ ev = NoEvent
    /\ written = [p \in {} |-> 0]
    /\ captured = [n \in {} |-> 0]
    /\ memory = [n \in {} |-> 0]

\* no expression is evaluated on its own
NoCalc == [fn |-> "none"]

Init == InitInterpreter /\ fuel = MaxSteps /\ calc = NoCalc

(* ------------------------------------------------ push_env / pop_env *)
\* push_env: the arena and the active scope afterwards
\* (mutant) the new scope is created without a parent
push_env_scopes_orphan == Append(scopes, Scope(NoScope))

push_env_scopes == Append(scopes, Scope(current_scope))
push_env_current == Len(scopes) + 1
\* pop_env: the parent becomes active; popping the global scope raises
pop_env_ok == scopes[current_scope].parent # NoScope
\* (mutant) pop_env leaves the active scope as it is
pop_env_current_kept == current_scope

pop_env_current == scopes[current_scope].parent

\* (mutant) the popped scope is emptied, as if its storage were released
pop_env_scopes_released ==
    [scopes EXCEPT ![current_scope].variables = EmptyVars]

\* pop_env: the arena afterwards; the Scope object popped is only unlinked from
\* current_scope and stays as it is for whoever still refers to it
pop_env_scopes == scopes

(* -------------------------- visitVariableDeclarationOrAssignment (plain) *)
\* (mutant) the declaration without the has_variable check of the current scope
DeclarationFault_NoDuplicateCheck(name, in_for) ==
    IF in_for THEN ""
    ELSE IF is_parameter(scopes, current_scope, name) THEN "ParameterRedeclaration"
    ELSE ""

\* The fault a plain `Set name = value` raises, "" when it is accepted.
DeclarationFault(name, in_for) ==
    IF in_for THEN ""
    ELSE IF is_parameter(scopes, current_scope, name) THEN "ParameterRedeclaration"
    ELSE IF has_variable(scopes, current_scope, name) THEN "DuplicateDeclaration"
    ELSE ""

DeclareIn(name, value, in_for) ==
    LET f == DeclarationFault(name, in_for) IN
    /\ scopes' = IF f = "" THEN set_variable(scopes, current_scope, name, value, FALSE)
                 ELSE scopes
    /\ sig' = IF f = "" THEN Result(None) ELSE Fault(f)
    /\ ev' = [Event(IF in_for THEN "for_init" ELSE "declare", name, current_scope,
                    Val(value), f)
              EXCEPT !.via = ev.op]
    /\ written' = IF f = "" THEN Record(current_scope, name, value) ELSE written
    /\ UNCHANGED <<current_scope, functions, call_stack, skip_next_block_scope,
                   output_lines, ctl>>

\* Set name = value
DeclareVariable(name, value) ==
    /\ UNCHANGED <<captured, memory, calc>>
    /\ InStatement
    /\ DeclareIn(name, value, FALSE)

\* name = value
ReassignVariable(name, value) ==
    /\ UNCHANGED <<captured, memory, calc>>
    /\ InStatement
    /\ LET s == reassign_scope(scopes, current_scope, name) IN
       /\ scopes' = IF s = NoScope THEN scopes
                    ELSE set_variable(scopes, s, name, value, FALSE)
       /\ sig' = IF s = NoScope THEN Fault("UndeclaredAssignment") ELSE Result(None)
       /\ ev' = Event("reassign", name, s, Val(value),
                      IF s = NoScope THEN "UndeclaredAssignment" ELSE "")
       /\ written' = IF s = NoScope THEN written ELSE Record(s, name, value)
    /\ UNCHANGED <<current_scope, functions, call_stack, skip_next_block_scope,
                   output_lines, ctl>>

(* ------------------------- visitVariableDeclarationOrAssignment (scoped) *)
\* The fault a write to parent::...::name raises, "" when it is accepted.
ScopedWriteFault(levels, name, is_declaration) ==
    LET s == resolve_scope(scopes, current_scope, levels) IN
    IF s = NoScope THEN "ScopeDepthExceeded"
    ELSE IF is_declaration
            /\ variable_exists_in_child_scopes(scopes, current_scope, s, name)
         THEN "AmbiguousShadowedDeclaration"
    ELSE ""

\* A variant that writes where a plain reassignment would: the nearest scope
\* from s upwards that already binds the name, s itself when none does.
scoped_write_scope_nearest(S, s, name) ==
    IF reassign_scope(S, s, name) = NoScope THEN s ELSE reassign_scope(S, s, name)

\* scope.set_variable(var_name, value): the scope a scoped write stores into is
\* the resolved one, whether or not it binds the name already.
scoped_write_scope(S, s, name) ==
    s

\* [Set] parent::...::name = value
ScopedAssignment(levels, name, value, is_declaration) ==
    /\ UNCHANGED <<captured, memory, calc>>
    /\ InStatement
    /\ LET r == resolve_scope(scopes, current_scope, levels)
           s == IF r = NoScope THEN NoScope ELSE scoped_write_scope(scopes, r, name)
           f == ScopedWriteFault(levels, name, is_declaration) IN
       /\ scopes' = IF f = "" THEN set_variable(scopes, s, name, value, FALSE)
                    ELSE scopes
       /\ sig' = IF f = "" THEN Result(None) ELSE Fault(f)
       /\ ev' = Event(IF is_declaration THEN "scoped_declare" ELSE "scoped_write",
                      name, s, Val(value), f)
       /\ written' = IF f = "" THEN Record(s, name, value) ELSE written
    /\ UNCHANGED <<current_scope, functions, call_stack, skip_next_block_scope,
                   output_lines, ctl>>
(* ------------------------------------------------------------ expressions *)
\* The expressions a return or display statement evaluates: a literal, an
\* identifier (visitFactorIdentifier -> lookup_variable) or parent::...::name
\* (visitScopedIdentifier).
Lit(v) == [k |-> "lit", n |-> "", levels |-> 0, v |-> v]
Id(n) == [k |-> "id", n |-> n, levels |-> 0, v |-> 0]
Scoped(levels, n) == [k |-> "scoped", n |-> n, levels |-> levels, v |-> 0]
Exprs == {Lit(v) : v \in Values} \cup {Id(n) : n \in Names}
         \cup {Scoped(l, n) : l \in Levels, n \in Assigned}

\* lookup_variable(name): the scope that answers, NoScope when none does
lookup_variable_scope(name) == get_variable_scope(scopes, current_scope, name)

\* visitScopedIdentifier: the scope that answers, NoScope when the name is not
\* found from the resolved scope upwards
scoped_identifier_scope(levels, name) ==
    LET s == resolve_scope(scopes, current_scope, levels) IN
    IF s = NoScope THEN NoScope ELSE get_variable_scope(scopes, s, name)

\* the scope whose binding the expression reads (NoScope for a literal or a fault)
ExprScope(e) ==
    IF e.k = "id" THEN lookup_variable_scope(e.n)
    ELSE IF e.k = "scoped" THEN scoped_identifier_scope(e.levels, e.n)
    ELSE NoScope

ExprFault(e) ==
    IF e.k = "lit" THEN ""
    ELSE IF e.k = "scoped" /\ resolve_scope(scopes, current_scope, e.levels) = NoScope
         THEN "ScopeDepthExceeded"
    ELSE IF ExprScope(e) = NoScope THEN "UndefinedVariable"
    ELSE ""

ExprValue(e) ==
    IF e.k = "lit" THEN e.v ELSE scopes[ExprScope(e)].variables[e.n]

(* ------------------------------------------------- visitDisplayStatement *)
Display(e) ==
    /\ UNCHANGED <<captured, memory, calc>>
    /\ InStatement
    /\ Len(output_lines) < MaxOut
    /\ LET f == ExprFault(e) IN
       /\ output_lines' = IF f = "" THEN append_line(output_lines, ToString(ExprValue(e)))
                          ELSE output_lines
       /\ sig' = IF f = "" THEN Result(None) ELSE Fault(f)
       /\ ev' = [Event("display", e.n, ExprScope(e),
                       IF f = "" THEN Val(ExprValue(e)) ELSE None, f)
                 EXCEPT !.levels = e.levels]
    /\ UNCHANGED <<scopes, current_scope, functions, call_stack,
                   skip_next_block_scope, ctl, written>>

(* -------------------------------------------------- visitReturnStatement *)
ReturnStatement(e) ==
    /\ UNCHANGED <<captured, memory, calc>>
    /\ InStatement
    /\ LET f == ExprFault(e) IN
       /\ sig' = IF f = "" THEN Return(Val(ExprValue(e))) ELSE Fault(f)
       /\ ev' = [Event("return", e.n, ExprScope(e),
                       IF f = "" THEN Val(ExprValue(e)) ELSE None, f)
                 EXCEPT !.levels = e.levels]
    /\ UNCHANGED <<scopes, current_scope, functions, call_stack,
                   skip_next_block_scope, output_lines, ctl, written>>

(* --------------------------------------------------- visitBreakStatement *)
Break ==
    /\ UNCHANGED <<captured, memory, calc>>
    /\ InStatement
    /\ sig' = Result(BreakStatement)
    /\ ev' = Event("break", "", NoScope, BreakStatement, "")
    /\ UNCHANGED <<scopes, current_scope, functions, call_stack,
                   skip_next_block_scope, output_lines, ctl, written>>

(* ---------------------------------------------- visitFunctionDeclaration *)
HasDuplicate(params) ==
    \E i, j \in 1..Len(params) : i < j /\ params[i] = params[j]

\* (mutant) the declaration without the check of the registry
FunctionDeclarationFault_NoNameCheck(name, params) ==
    IF HasDuplicate(params) THEN "DuplicateParameter" ELSE ""

\* The fault visitFunctionDeclaration raises, "" when it registers the function:
\* the name is looked up first, then the parameters are scanned for a repeat.
FunctionDeclarationFault(name, params) ==
    IF name \in DOMAIN functions THEN "DuplicateFunction"
    ELSE IF HasDuplicate(params) THEN "DuplicateParameter"
    ELSE ""

\* the registry entry visitFunctionDeclaration stores
FunctionEntry(params, body) ==
    [params |-> params, body |-> body, scope |-> current_scope]

FunctionDeclaration(name, params, body) ==
    /\ InStatement
    /\ LET f == FunctionDeclarationFault(name, params) IN
       /\ functions' = IF f = "" THEN (name :> FunctionEntry(params, body)) @@ functions
                       ELSE functions
       /\ captured' = IF f = "" THEN (name :> written) @@ captured ELSE captured
       /\ sig' = IF f = "" THEN Result(None) ELSE Fault(f)
       /\ ev' = Event("function", name, current_scope, None, f)
    /\ UNCHANGED <<scopes, current_scope, call_stack, skip_next_block_scope,
                   output_lines, ctl, written, memory, calc>>

(* ------------------------------------------ visitFunctionCall / callFunction *)
\* (mutant) the call without the comparison of the argument count
CallFault_NoArityCheck(name, args) ==
    IF name \notin DOMAIN functions THEN "UnknownFunction" ELSE ""

\* The fault the checks of callFunction raise, "" when the call goes ahead:
\* functions[name] raises for an unknown name, then the lengths are compared.
CallFault(name, args) ==
    IF name \notin DOMAIN functions THEN "UnknownFunction"
    ELSE IF Len(functions[name].params) # Len(args) THEN "ArityMismatch"
    ELSE ""

\* (mutant) dynamic scoping: the new scope hangs below the caller's scope
local_scope_parent_caller(name) == current_scope

\* the parent of the scope callFunction creates for a call of name
local_scope_parent(name) == functions[name].scope

\* (mutant) the value of a caught FunctionReturn is dropped
call_result_dropped(s) == None

\* The result of callFunction for the signal s that ends the body: what
\* visit(body) returned, or the value of the FunctionReturn caught.
call_result(s) == s.val

\* (mutant) the scope is restored as pop_env would, to the parent of the
\* active scope
restored_scope_parent(frame) == scopes[current_scope].parent

\* the finally clause: self.current_scope = previous_scope
restored_scope(frame) == frame.prev

\* `for pname, arg in zip(param_names, args): local_scope.set_variable(...)`;
\* zip stops at the shorter of the two
RECURSIVE bind_parameters(_, _, _, _, _)
bind_parameters(S, s, params, args, i) ==
    IF i > Len(params) \/ i > Len(args) THEN S
    ELSE bind_parameters(set_variable(S, s, params[i], args[i], TRUE),
                         s, params, args, i + 1)

\* the history after the parameters are bound
RECURSIVE record_parameters(_, _, _, _, _)
record_parameters(W, s, params, args, i) ==
    IF i > Len(params) \/ i > Len(args) THEN W
    ELSE record_parameters((<<s, params[i]>> :> args[i]) @@ W, s, params, args, i + 1)

\* The call up to `self.visit(body)`: the checks, the new scope, the frame and
\* the flag.  stmt: the call is a statement of its own (visitStatement).
CallFunction(name, args, stmt) ==
    LET f == CallFault(name, args)
        local_scope == Len(scopes) + 1 IN
    /\ f = "" => /\ Len(scopes) < MaxScopes
                 /\ Len(ctl) + 2 <= MaxDepth
    /\ stmt => Len(output_lines) < MaxOut
    /\ IF f # ""
       THEN /\ sig' = Fault(f)
            /\ UNCHANGED <<scopes, current_scope, call_stack,
                           skip_next_block_scope, ctl, written>>
       ELSE /\ scopes' = bind_parameters(Append(scopes, Scope(local_scope_parent(name))),
                                         local_scope, functions[name].params, args, 1)
            /\ written' = record_parameters(written, local_scope,
                                            functions[name].params, args, 1)
            /\ current_scope' = local_scope
            /\ call_stack' = Append(call_stack,
                                    [name |-> name, params |-> functions[name].params,
                                     scope |-> local_scope])
            /\ skip_next_block_scope' = TRUE
            /\ ctl' = Append(ctl, Frame("call", local_scope, current_scope, stmt))
            /\ sig' = NoSig
    /\ ev' = [Event("call", name, IF f = "" THEN local_scope ELSE NoScope, None, f)
                 EXCEPT !.args = args]
    /\ UNCHANGED <<functions, output_lines>>

\* a statement that is a bare function call
CallStatement(name, args) ==
    /\ UNCHANGED <<captured, memory, calc>>
    /\ InVisitStatement
    /\ CallFunction(name, args, TRUE)
(* --------------------------------------------------- visitBlockStatement *)
\* Entering a block: with the flag set the block runs in the active scope and
\* resets the flag, otherwise it pushes a scope of its own.  A call that has
\* just been set up visits its body block next and nothing else.
\* (mutant) the block leaves the flag as it found it
skip_flag_left == skip_next_block_scope

\* the flag after `self.skip_next_block_scope = False  # reset the flag`
skip_flag_reset == FALSE

BlockEnter ==
    /\ UNCHANGED <<captured, memory, calc>>
    /\ Running
    /\ IF Top.kind = "call"
       THEN UNCHANGED fuel
       ELSE /\ Top.kind \in {"prog", "block", "if", "while", "for"}
            /\ fuel > 0
            /\ fuel' = fuel - 1
    /\ IF skip_next_block_scope
       THEN /\ skip_next_block_scope' = skip_flag_reset
            /\ ctl' = Append(ctl, Frame("block", current_scope, NoScope, FALSE))
            /\ UNCHANGED <<scopes, current_scope>>
       ELSE /\ Len(scopes) < MaxScopes
            /\ Len(ctl) < MaxDepth
            /\ scopes' = push_env_scopes
            /\ current_scope' = push_env_current
            /\ ctl' = Append(ctl, Frame("block", push_env_current, NoScope, TRUE))
            /\ UNCHANGED skip_next_block_scope
    /\ sig' = NoSig
    /\ ev' = Event("block_enter", "", current_scope', None, "")
    /\ UNCHANGED <<functions, call_stack, output_lines, written>>

\* (mutant) the block returns what its last statement yielded
block_result_last(last) == last

\* What visitBlockStatement returns after a last statement that yielded `last`:
\* both of its paths end without a return value.
block_result(last) == None

\* The statements of the block are exhausted: pop the scope it pushed, if any;
\* the block yields None.
BlockEnd ==
    /\ UNCHANGED <<captured, memory, calc>>
    /\ Running
    /\ Top.kind = "block"
    /\ UNCHANGED fuel
    /\ IF Top.flag
       THEN IF pop_env_ok
            THEN /\ current_scope' = pop_env_current
                 /\ scopes' = pop_env_scopes
                 /\ sig' = [Result(block_result(Top.last)) EXCEPT !.last = Top.last]
            ELSE /\ sig' = Fault("CannotPopGlobalScope")
                 /\ UNCHANGED <<scopes, current_scope>>
       ELSE /\ sig' = [Result(block_result(Top.last)) EXCEPT !.last = Top.last]
            /\ UNCHANGED <<scopes, current_scope>>
    /\ ctl' = Pop(ctl)
    /\ ev' = Event("block_exit", "", current_scope', None, "")
    /\ UNCHANGED <<functions, call_stack, skip_next_block_scope, output_lines,
                   written>>

(* -------------------------------------------------------- visitWhileLoop *)
\* (mutant) the loop returns the break sentinel like any other result
while_result_relayed(r) == r

\* What visitWhileLoop returns when a statement of the body yields r, not None:
\* a bare `return` for a BreakStatement, r itself otherwise.
while_result(r) == IF r.t = "break" THEN None ELSE r

\* The condition is evaluated at loop entry: true starts the first iteration in
\* a fresh scope, false ends the loop with None.
WhileLoop(cond) ==
    /\ UNCHANGED <<captured, memory, calc>>
    /\ InStatement
    /\ IF cond
       THEN /\ Len(scopes) < MaxScopes
            /\ Len(ctl) < MaxDepth
            /\ scopes' = push_env_scopes
            /\ current_scope' = push_env_current
            /\ ctl' = Append(ctl, Frame("while", push_env_current, current_scope, TRUE))
            /\ sig' = NoSig
       ELSE /\ sig' = Result(None)
            /\ UNCHANGED <<scopes, current_scope, ctl>>
    /\ ev' = Event("while_enter", "", current_scope', None, "")
    /\ UNCHANGED <<functions, call_stack, skip_next_block_scope, output_lines,
                   written>>

\* The statements of an iteration are exhausted: pop its scope and evaluate
\* the condition again.
WhileIterationEnd(cond) ==
    /\ UNCHANGED <<captured, memory, calc>>
    /\ Running
    /\ Top.kind = "while"
    /\ fuel > 0
    /\ fuel' = fuel - 1
    /\ IF ~pop_env_ok
       THEN /\ sig' = Fault("CannotPopGlobalScope")
            /\ ctl' = Pop(ctl)
            /\ UNCHANGED <<scopes, current_scope>>
       ELSE IF cond
       THEN /\ Len(scopes) < MaxScopes
            /\ scopes' = Append(pop_env_scopes, Scope(pop_env_current))
            /\ current_scope' = Len(scopes) + 1
            /\ ctl' = [ctl EXCEPT ![Len(ctl)].scope = Len(scopes) + 1]
            /\ sig' = NoSig
       ELSE /\ current_scope' = pop_env_current
            /\ scopes' = pop_env_scopes
            /\ ctl' = Pop(ctl)
            /\ sig' = Result(None)
    /\ ev' = Event(IF cond THEN "while_next" ELSE "while_exit", "", current_scope',
                   None, "")
    /\ UNCHANGED <<functions, call_stack, skip_next_block_scope, output_lines,
                   written>>

(* ------------------------------------ visitIfStatement / visitLoopIfStatement *)
\* taken: some condition is true (or there is an else), so one body is visited
\* and its result returned; otherwise the statement yields None.
IfStatement(taken) ==
    /\ UNCHANGED <<captured, memory, calc>>
    /\ InStatement
    /\ IF taken
       THEN /\ Len(ctl) < MaxDepth
            /\ Top.kind # "if"
            /\ ctl' = Append(ctl, Frame("if", current_scope, NoScope, FALSE))
            /\ sig' = NoSig
       ELSE /\ sig' = Result(None)
            /\ UNCHANGED ctl
    /\ ev' = Event("if", "", NoScope, None, "")
    /\ UNCHANGED <<scopes, current_scope, functions, call_stack,
                   skip_next_block_scope, output_lines, written>>

(* ---------------------------------------------------------- visitForLoop *)
\* A for loop whose condition is false at entry: the initializer runs as a
\* declaration in the for-init position, in the active scope, and the loop
\* yields None.
ForLoop(name, value) ==
    /\ UNCHANGED <<captured, memory, calc>>
    /\ InVisitStatement
    /\ DeclareIn(name, value, TRUE)
(* -------------------------------------------------------- visitOperation *)
\* name++ (increment) or name-- as a statement: the value is looked up in, and
\* stored to, Interpreter.memory, not the scope chain.  Every value the model
\* stores is a number, so the non-numeric test never fails here.
Operation(name, increment) ==
    /\ UNCHANGED <<captured, calc>>
    /\ InVisitStatement
    /\ IF name \notin DOMAIN memory
       THEN /\ sig' = Fault("UndefinedVariable")
            /\ ev' = Event("operation", name, NoScope, None, "UndefinedVariable")
            /\ UNCHANGED memory
       ELSE LET value == IF increment THEN memory[name] + 1 ELSE memory[name] - 1 IN
            /\ memory' = [memory EXCEPT ![name] = value]
            /\ sig' = Result(Val(value))
            /\ ev' = Event("operation", name, NoScope, Val(value), "")
    /\ UNCHANGED <<scopes, current_scope, functions, call_stack,
                   skip_next_block_scope, output_lines, ctl, written>>

\* A for loop whose condition holds at entry: the initializer, then the first
\* iteration starts in a fresh scope.  The scope of loop entry is kept in prev.
ForLoopIterating(name, value) ==
    /\ UNCHANGED <<captured, memory, calc>>
    /\ InVisitStatement
    /\ Len(scopes) < MaxScopes
    /\ Len(ctl) < MaxDepth
    /\ scopes' = Append(set_variable(scopes, current_scope, name, value, FALSE),
                        Scope(current_scope))
    /\ current_scope' = Len(scopes) + 1
    /\ ctl' = Append(ctl, Frame("for", Len(scopes) + 1, current_scope, TRUE))
    /\ sig' = NoSig
    /\ ev' = Event("for_enter", name, current_scope, Val(value), "")
    /\ written' = Record(current_scope, name, value)
    /\ UNCHANGED <<functions, call_stack, skip_next_block_scope, output_lines>>

\* (mutant) the update runs after every iteration
update_runs_always(holds) == TRUE

\* `if self.visit(ctx.cond): self.visit(ctx.forUpdate())`
update_runs(holds) == holds

\* the scope the update `[Set] name = ...` writes when s is the active scope:
\* in the update position a declaration is stored without the checks
update_scope(s, name, is_declaration) ==
    IF is_declaration THEN s ELSE reassign_scope(scopes, s, name)

\* the fault the update raises when s is the active scope, "" when it raises none
UpdateFault(s, name, e, is_declaration) ==
    IF e.k = "id" /\ get_variable_scope(scopes, s, e.n) = NoScope THEN "UndefinedVariable"
    ELSE IF update_scope(s, name, is_declaration) = NoScope THEN "UndeclaredAssignment"
    ELSE ""

\* the value of the update's expression when s is the active scope
UpdateValue(s, e) == IF e.k = "lit" THEN e.v ELSE get_variable(scopes, s, e.n)

\* The body is exhausted without a break: pop the scope of the iteration; if
\* the condition holds, run the update `[Set] name = e`; then the condition is
\* evaluated again (again) and decides between another iteration and the end of
\* the loop, which yields None.  A condition that did not hold is evaluated
\* again in the same state and does not hold.
ForIterationEnd(holds, again, name, e, is_declaration) ==
    LET enclosing == pop_env_current
        f == UpdateFault(enclosing, name, e, is_declaration)
        s == update_scope(enclosing, name, is_declaration)
        updated == set_variable(scopes, s, name, UpdateValue(enclosing, e), FALSE) IN
    /\ UNCHANGED <<captured, memory, calc>>
    /\ Running
    /\ Top.kind = "for"
    /\ fuel > 0
    /\ fuel' = fuel - 1
    /\ IF ~pop_env_ok
       THEN /\ sig' = Fault("CannotPopGlobalScope")
            /\ ctl' = Pop(ctl)
            /\ ev' = Event("for_exit", "", NoScope, None, "CannotPopGlobalScope")
            /\ UNCHANGED <<scopes, current_scope, written>>
       ELSE IF ~update_runs(holds)
       THEN /\ ~again
            /\ current_scope' = enclosing
            /\ scopes' = pop_env_scopes
            /\ ctl' = Pop(ctl)
            /\ sig' = Result(None)
            /\ ev' = Event("for_exit", "", enclosing, None, "")
            /\ UNCHANGED written
       ELSE IF f # ""
       THEN /\ current_scope' = enclosing
            /\ scopes' = pop_env_scopes
            /\ ctl' = Pop(ctl)
            /\ sig' = Fault(f)
            /\ ev' = [Event("for_update", name, NoScope, None, f) EXCEPT !.via = e.n]
            /\ UNCHANGED written
       ELSE /\ written' = Record(s, name, UpdateValue(enclosing, e))
            /\ ev' = [Event(IF again THEN "for_next" ELSE "for_update", name, s,
                            Val(UpdateValue(enclosing, e)), "")
                      EXCEPT !.via = e.n]
            /\ IF again
               THEN /\ Len(scopes) < MaxScopes
                    /\ scopes' = Append(updated, Scope(enclosing))
                    /\ current_scope' = Len(scopes) + 1
                    /\ ctl' = [ctl EXCEPT ![Len(ctl)].scope = Len(scopes) + 1]
                    /\ sig' = NoSig
               ELSE /\ scopes' = updated
                    /\ current_scope' = enclosing
                    /\ ctl' = Pop(ctl)
                    /\ sig' = Result(None)
    /\ UNCHANGED <<functions, call_stack, skip_next_block_scope, output_lines>>

\* What `self.visit(ctx.forBody())` hands to visitForLoop when a statement of
\* the body yielded r: the break sentinel ends the body and reaches the loop,
\* any other result is dropped and the body goes on.
forBody_result(r) == IF r.t = "break" THEN r ELSE None

\* visitForLoop is handed the result of its body
ForBodyResult ==
    /\ UNCHANGED <<captured, memory, calc>>
    /\ UNCHANGED fuel
    /\ sig.kind = "result"
    /\ Top.kind = "for"
    /\ IF forBody_result(sig.val).t # "break"
       THEN /\ sig' = NoSig
            /\ ev' = NoEvent
            /\ UNCHANGED <<scopes, current_scope, ctl>>
       ELSE IF ~pop_env_ok
       THEN /\ sig' = Fault("CannotPopGlobalScope")
            /\ ctl' = Pop(ctl)
            /\ ev' = NoEvent
            /\ UNCHANGED <<scopes, current_scope>>
       ELSE /\ current_scope' = pop_env_current
            /\ scopes' = pop_env_scopes
            /\ ctl' = Pop(ctl)
            /\ sig' = Result(None)
            /\ ev' = Event("for_break", "", pop_env_current, sig.val, "")
    /\ UNCHANGED <<functions, call_stack, skip_next_block_scope, output_lines,
                   written>>

(* ------------------------------------------------- results handed upwards *)
\* The end of callFunction: `result` is what the call yields; the finally
\* clause pops the call frame and restores previous_scope.  For a statement
\* call, visitStatement then appends "Result: <result>" when it is not None.
CallExit(result) ==
    /\ call_stack' = Pop(call_stack)
    /\ current_scope' = restored_scope(Top)
    /\ ctl' = Pop(ctl)
    /\ output_lines' = IF Top.flag /\ result.t # "none"
                       THEN append_line(output_lines, ResultLine(result))
                       ELSE output_lines
    /\ sig' = Result(result)
    /\ ev' = [Event("call_exit", call_stack[Len(call_stack)].name,
                    restored_scope(Top), result, "")
                 EXCEPT !.hops = sig.hops, !.last = sig.last, !.via = sig.kind]
    /\ UNCHANGED <<scopes, functions, skip_next_block_scope, written>>

\* What the method on top of the control stack does with the result of the
\* statement it has just visited.
Deliver ==
    /\ UNCHANGED <<captured, memory, calc>>
    /\ UNCHANGED fuel
    /\ sig.kind = "result"
    /\ \/ /\ Top.kind = "prog"                      \* visitProgram
          /\ output_lines' = IF sig.val.t = "val"
                             THEN append_line(output_lines, Str(sig.val))
                             ELSE output_lines
          /\ sig' = NoSig
          /\ ev' = NoEvent
          /\ UNCHANGED <<scopes, current_scope, functions, call_stack,
                         skip_next_block_scope, ctl, written>>
       \/ /\ Top.kind = "block"                     \* visitBlockStatement: discarded
          /\ sig' = NoSig
          /\ ctl' = [ctl EXCEPT ![Len(ctl)].last = sig.val]
          /\ ev' = NoEvent
          /\ UNCHANGED <<scopes, current_scope, functions, call_stack,
                         skip_next_block_scope, output_lines, written>>
       \/ /\ Top.kind = "if"                        \* visitIfStatement: returned as is
          /\ ctl' = Pop(ctl)
          /\ ev' = Event("if_relay", "", NoScope, sig.val, "")
          /\ UNCHANGED <<scopes, current_scope, functions, call_stack,
                         skip_next_block_scope, output_lines, sig, written>>
       \/ /\ Top.kind = "while"                     \* visitWhileLoop
          /\ IF sig.val.t = "none"
             THEN /\ sig' = NoSig
                  /\ ev' = NoEvent
                  /\ UNCHANGED <<scopes, current_scope, ctl>>
             ELSE IF ~pop_env_ok
             THEN /\ sig' = Fault("CannotPopGlobalScope")
                  /\ ctl' = Pop(ctl)
                  /\ ev' = NoEvent
                  /\ UNCHANGED <<scopes, current_scope>>
             ELSE /\ current_scope' = pop_env_current
                  /\ scopes' = pop_env_scopes
                  /\ ctl' = Pop(ctl)
                  /\ sig' = Result(while_result(sig.val))
                  /\ ev' = [Event(IF sig.val.t = "break" THEN "while_break"
                                  ELSE "while_result", "", pop_env_current, sig.val, "")
                            EXCEPT !.via = ev.op]
          /\ UNCHANGED <<functions, call_stack, skip_next_block_scope,
                         output_lines, written>>
       \/ /\ Top.kind = "call"                      \* callFunction: result = visit(body)
          /\ CallExit(call_result(sig))

\* A variant in which visitProgram absorbs a FunctionReturn and goes on with
\* the next statement.
visitProgram_return_absorbed(s) ==
    IF s.kind = "return" THEN "none" ELSE "aborted"

\* visitProgram visits its statements without a try: what a statement raises
\* ends the evaluation, a FunctionReturn as an unhandled return unwind and an
\* error as an abort; output_lines is not returned.
visitProgram_raised(s) ==
    IF s.kind = "return" THEN "unhandled_return" ELSE "aborted"

\* A FunctionReturn or a fault leaves the method on top of the control stack:
\* callFunction catches the FunctionReturn and runs its finally clause on both;
\* no other method catches or cleans up; visitProgram lets both through to the
\* caller of the evaluation.
Unwind ==
    /\ UNCHANGED <<captured, memory, calc>>
    /\ UNCHANGED fuel
    /\ sig.kind \in {"return", "fault"}
    /\ \/ /\ Top.kind = "call"
          /\ sig.kind = "return"
          /\ CallExit(call_result(sig))
       \/ /\ Top.kind = "call"
          /\ sig.kind = "fault"
          /\ call_stack' = Pop(call_stack)
          /\ current_scope' = restored_scope(Top)
          /\ ctl' = Pop(ctl)
          /\ sig' = [sig EXCEPT !.hops = sig.hops + 1]
          /\ ev' = [Event("call_fault", call_stack[Len(call_stack)].name,
                          restored_scope(Top), None, sig.err)
                    EXCEPT !.hops = sig.hops]
          /\ UNCHANGED <<scopes, functions, skip_next_block_scope, output_lines,
                         written>>
       \/ /\ Top.kind \in {"block", "if", "while", "for"}
          /\ ctl' = Pop(ctl)
          /\ sig' = [sig EXCEPT !.hops = sig.hops + 1]
          /\ ev' = NoEvent
          /\ UNCHANGED <<scopes, current_scope, functions, call_stack,
                         skip_next_block_scope, output_lines, written>>
       \/ /\ Top.kind = "prog"
          /\ sig' = [sig EXCEPT !.kind = visitProgram_raised(sig)]
          /\ ev' = NoEvent
          /\ UNCHANGED <<scopes, current_scope, functions, call_stack,
                         skip_next_block_scope, output_lines, ctl, written>>

\* visitProgram has visited every statement and returns output_lines
ProgramEnd ==
    /\ UNCHANGED <<captured, memory, calc>>
    /\ UNCHANGED fuel
    /\ Running
    /\ Top.kind = "prog"
    /\ sig' = Signal("done", None, "")
    /\ ev' = NoEvent
    /\ UNCHANGED <<scopes, current_scope, functions, call_stack,
                   skip_next_block_scope, output_lines, ctl, written>>

(* ------------------------------------------------------------------- Next *)
Next ==
    \/ \E n \in Assigned, v \in Values : DeclareVariable(n, v)
    \/ \E n \in Assigned, v \in Values : ReassignVariable(n, v)
    \/ \E l \in Levels, n \in Assigned, v \in Values, d \in BOOLEAN :
          ScopedAssignment(l, n, v, d)
    \/ \E n \in Assigned, v \in Values : ForLoop(n, v)
    \/ \E n \in Assigned, i \in BOOLEAN : Operation(n, i)
    \/ \E e \in Exprs : Display(e)
    \/ \E e \in Exprs : ReturnStatement(e)
    \/ Break
    \/ \E f \in FuncNames, ps \in ParamLists, b \in Bodies : FunctionDeclaration(f, ps, b)
    \/ \E f \in FuncNames, as \in ArgLists : CallStatement(f, as)
    \/ BlockEnter
    \/ BlockEnd
    \/ \E c \in BOOLEAN : WhileLoop(c)
    \/ \E c \in BOOLEAN : WhileIterationEnd(c)
    \/ \E c \in BOOLEAN : IfStatement(c)
    \/ Deliver
    \/ Unwind
    \/ ProgramEnd

Spec == Init /\ [][Next]_vars

(* ------------------------------------------------- programs with for loops *)
\* the expressions of an update: a literal or a plain identifier
UpdateExprs == {Lit(v) : v \in Values} \cup {Id(n) : n \in Names}

NextFor ==
    \/ \E n \in Names, v \in Values : DeclareVariable(n, v)
    \/ \E n \in Assigned, v \in Values : ForLoop(n, v)
    \/ \E n \in Assigned, v \in Values : ForLoopIterating(n, v)
    \/ \E h, a, d \in BOOLEAN, n \in Assigned, e \in UpdateExprs :
          ForIterationEnd(h, a, n, e, d)
    \/ ForBodyResult
    \/ Break
    \/ \E c \in BOOLEAN : IfStatement(c)
    \/ BlockEnter
    \/ BlockEnd
    \/ Deliver
    \/ Unwind
    \/ ProgramEnd

SpecFor == Init /\ [][NextFor]_vars

(* ----------------------------------------- expressions evaluated on their own *)
\* the interpreter's own state, left alone while an expression is evaluated
interp == <<scopes, current_scope, functions, call_stack, skip_next_block_scope,
            output_lines, ctl, sig, ev, written, captured, memory, fuel>>

\* A number: a Python int, or a float held exactly as num/den (den > 0).
IntNum(v) == [t |-> "int", num |-> v, den |-> 1]
FloatNum(n, d) == [t |-> "float", num |-> IF d < 0 THEN -n ELSE n,
                               den |-> IF d < 0 THEN -d ELSE d]

\* the absolute value and the sign of an integer
Abs(a) == IF a < 0 THEN -a ELSE a

\* Python's a // b on ints (b # 0): the quotient rounded towards minus infinity
floor_div(a, b) == IF b > 0 THEN a \div b ELSE (-a) \div (-b)

\* Python's a % b on ints (b # 0): the remainder that goes with a // b
py_mod(a, b) == a - b * floor_div(a, b)

\* the outcome of evaluating an expression: a value, or the fault raised
Value(v) == [fault |-> "", val |-> v]
Raised(e) == [fault |-> e, val |-> IntNum(0)]

\* visitTerm on evaluated operands: `left op right` for op in * / %
visitTerm(op, left, right) ==
    LET ints == left.t = "int" /\ right.t = "int" IN
    IF op = "*"
    THEN Value(IF ints THEN IntNum(left.num * right.num)
               ELSE FloatNum(left.num * right.num, left.den * right.den))
    ELSE IF right.num = 0 THEN Raised("ZeroDivisionError")
    ELSE IF op = "/"
    THEN IF right.t = "int" /\ left.t # "float"
         THEN Value(IntNum(floor_div(left.num, right.num)))
         ELSE Value(FloatNum(left.num * right.den, left.den * right.num))
    ELSE \* op = "%": the operands of the model are whole numbers, int or float
         IF ints THEN Value(IntNum(py_mod(left.num, right.num)))
         ELSE Value(FloatNum(py_mod(left.num, right.num), 1))

\* the operand values: ints and whole floats up to MaxInt either side of zero
\* (a negative operand is the result of visitUnaryMinus)
Operands == {IntNum(v) : v \in -MaxInt..MaxInt} \cup {FloatNum(v, 1) : v \in -MaxInt..MaxInt}
TermOps == {"*", "/", "%"}

InitTerm ==
    /\ InitInterpreter
    /\ fuel = 0
    /\ calc \in {[fn |-> "term", op |-> o, left |-> l, right |-> r,
                  done |-> FALSE, out |-> Value(IntNum(0))] :
                 o \in TermOps, l \in Operands, r \in Operands}

EvalTerm ==
    /\ calc.fn = "term"
    /\ ~calc.done
    /\ calc' = [calc EXCEPT !.done = TRUE,
                            !.out = visitTerm(calc.op, calc.left, calc.right)]
    /\ UNCHANGED interp

NextTerm == EvalTerm

SpecTerm == InitTerm /\ [][NextTerm]_vars


(* ------------------------------------------------------------ invert_matrix *)
\* a matrix value: a list of rows, each a list of floats (visitValue); rows of
\* different lengths are not refused by visitMatrixConstruction
Entries == {FloatNum(v, 1) : v \in -MaxEntry..MaxEntry}
Rows == UNION {[1..n -> Entries] : n \in 0..MaxDim}
Matrices == UNION {[1..n -> Rows] : n \in 0..MaxDim}

determinant_permanent(a, b, c, d) == a * d + b * c
\* determinant = a * d - b * c
determinant(a, b, c, d) == a * d - b * c

\* invert_matrix(matrix): the dimension test looks at the number of rows and at
\* the first row only; unpacking a second row of another length raises ValueError
invert_matrix(matrix) ==
    IF Len(matrix) # 2 \/ Len(matrix[1]) # 2 THEN Raised("UnsupportedDimension")
    ELSE IF Len(matrix[2]) # 2 THEN Raised("ValueError")
    ELSE LET a == matrix[1][1].num
             b == matrix[1][2].num
             c == matrix[2][1].num
             d == matrix[2][2].num
             det == determinant(a, b, c, d) IN
         IF det = 0 THEN Raised("NotInvertible")
         ELSE Value(<< <<FloatNum(d, det), FloatNum(-b, det)>>,
                       <<FloatNum(-c, det), FloatNum(a, det)>> >>)

InitInvert ==
    /\ InitInterpreter
    /\ fuel = 0
    /\ calc \in {[fn |-> "invert", matrix |-> m, operand |-> m,
                  done |-> FALSE, out |-> Raised("")] : m \in Matrices}

\* visitMatrixExpression with INVERT_MATRIX: the operand list is only read
EvalInvert ==
    /\ calc.fn = "invert"
    /\ ~calc.done
    /\ calc' = [calc EXCEPT !.done = TRUE, !.out = invert_matrix(calc.matrix)]
    /\ UNCHANGED interp

NextInvert == EvalInvert

SpecInvert == InitInvert /\ [][NextInvert]_vars


(* ------------------------------------------ the value an assignment stores *)
\* value.is_integer() for a float held as num/den
is_integer(value) == value.num % value.den = 0

\* int(value) for a float held as num/den: the fraction is cut off towards zero
int_of(value) ==
    IF value.num >= 0 THEN value.num \div value.den
    ELSE -((-value.num) \div value.den)

\* `elif isinstance(value, float) and value.is_integer(): value = int(value)`
narrowed(value) ==
    IF value.t = "float" /\ is_integer(value) THEN IntNum(int_of(value)) ELSE value

\* cast_value(value, type_str) for the numeric types and a number
cast_value(value, type_str) ==
    IF type_str = "int" THEN IntNum(int_of(value))
    ELSE FloatNum(value.num, value.den)

\* The value visitVariableDeclarationOrAssignment hands to set_variable.
\* form: "declare" (Set x = v), "reassign" (x = v) or "scoped" ([Set] parent::x = v);
\* declared_type: "" without a type annotation.
stored_value(form, declared_type, value) ==
    IF declared_type # "" THEN cast_value(value, declared_type)
    ELSE IF form = "reassign" THEN value
    ELSE narrowed(value)

\* the numbers an expression yields: ints, and floats in halves
Numbers == {IntNum(v) : v \in -MaxInt..MaxInt}
           \cup {FloatNum(v, d) : v \in -MaxInt..MaxInt, d \in {1, 2}}
Forms == {"declare", "reassign", "scoped"}
DeclaredTypes == {"", "int", "float"}

InitStore ==
    /\ InitInterpreter
    /\ fuel = 0
    /\ calc \in {[fn |-> "store", form |-> f, declared_type |-> ty, value |-> v,
                  done |-> FALSE, out |-> IntNum(0)] :
                 f \in Forms, ty \in DeclaredTypes, v \in Numbers}

EvalStore ==
    /\ calc.fn = "store"
    /\ ~calc.done
    /\ calc' = [calc EXCEPT !.done = TRUE,
                            !.out = stored_value(calc.form, calc.declared_type,
                                                 calc.value)]
    /\ UNCHANGED interp

NextStore == EvalStore

SpecStore == InitStore /\ [][NextStore]_vars

(* ============================== properties ============================== *)
\* the scopes on the parent chain of s, s included
RECURSIVE ChainOf(_)
ChainOf(s) == IF s = NoScope THEN {} ELSE {s} \cup ChainOf(scopes[s].parent)

\* the scopes created by calls that are still in progress
CallScopes == {call_stack[i].scope : i \in 1..Len(call_stack)}

\* the active scope was pushed by a block or a loop iteration
InChildScope == scopes[current_scope].parent # NoScope /\ current_scope \notin CallScopes

\* name is bound in a scope enclosing the active one
BoundOutside(name) ==
    \E s \in ChainOf(scopes[current_scope].parent) : name \in DOMAIN scopes[s].variables

\* name is marked as a parameter in the active scope or in an ancestor of it
ParameterOnChain(name) ==
    \E s \in ChainOf(current_scope) : name \in scopes[s].parameters

\* every scope other than s is as it was
OthersUnchanged(s) ==
    \A o \in 1..Len(scopes) : o # s => scopes'[o] = scopes[o]

(* C1 as stated: a plain declaration (not a for initializer) of a name bound in
   the current scope faults with DuplicateDeclaration and changes no binding;
   in a freshly pushed child scope that does not bind the name yet it never
   faults, binds the name there and changes no other scope. *)
C1_AsStated ==
    [][\A n \in Assigned, v \in Values :
         DeclareVariable(n, v) =>
           /\ has_variable(scopes, current_scope, n) =>
                 /\ sig' = Fault("DuplicateDeclaration")
                 /\ scopes' = scopes
           /\ (InChildScope /\ ~has_variable(scopes, current_scope, n)) =>
                 /\ sig'.kind # "fault"
                 /\ scopes'[current_scope].variables[n] = v
                 /\ OthersUnchanged(current_scope)]_vars

(* C1 amended: a plain declaration (not a for initializer) of a name bound in
   the current scope faults and changes no binding, with ParameterRedeclaration
   when the name is marked as a parameter in the current scope or an ancestor
   and with DuplicateDeclaration otherwise; in a freshly pushed child scope
   that does not bind the name it binds the name there without a fault and
   changes no other scope, unless the name is marked as a parameter on the
   scope chain, in which case it faults with ParameterRedeclaration and changes
   nothing. *)
C1_Declaration ==
    [][\A n \in Assigned, v \in Values :
         DeclareVariable(n, v) =>
           /\ has_variable(scopes, current_scope, n) =>
                 /\ sig' = Fault(IF ParameterOnChain(n) THEN "ParameterRedeclaration"
                                 ELSE "DuplicateDeclaration")
                 /\ scopes' = scopes
           /\ (InChildScope /\ ~has_variable(scopes, current_scope, n)) =>
                 IF ParameterOnChain(n)
                 THEN /\ sig' = Fault("ParameterRedeclaration")
                      /\ scopes' = scopes
                 ELSE /\ sig'.kind # "fault"
                      /\ scopes'[current_scope].variables[n] = v
                      /\ OthersUnchanged(current_scope)]_vars

\* a declaration in a child scope has just shadowed an outer binding of the
\* same name, which still holds another value
C1_Witness ==
    /\ ev.op = "declare" /\ ev.out = ""
    /\ InChildScope
    /\ BoundOutside(ev.name)
    /\ \E s \in ChainOf(scopes[current_scope].parent) :
          /\ ev.name \in DOMAIN scopes[s].variables
          /\ scopes[s].variables[ev.name] # scopes[current_scope].variables[ev.name]

\* the innermost call in progress, its scope and the defining scope of its function
TopCall == call_stack[Len(call_stack)]
DefiningScope == functions[TopCall.name].scope

\* no method in progress runs its statements in s: the block, loop iteration or
\* call that created s has been left
Exited(s) == s # global_scope /\ \A i \in 1..Len(ctl) : ctl[i].scope # s

\* the nearest scope from s upwards that name was ever written in
RECURSIVE NearestWritten(_, _)
NearestWritten(s, name) ==
    IF s = NoScope THEN NoScope
    ELSE IF <<s, name>> \in DOMAIN written THEN s
    ELSE NearestWritten(scopes[s].parent, name)

\* the last step read the plain identifier ev.name inside a call of a function
\* whose defining scope has been left, and the scopes of the call itself do not
\* bind that name
ClosureRead ==
    /\ ev.op \in {"return", "display"}
    /\ ev.name # "" /\ ev.levels = 0
    /\ call_stack # <<>>
    /\ Exited(DefiningScope)
    /\ \A s \in ChainOf(ev.at) \ ChainOf(DefiningScope) :
          ev.name \notin DOMAIN scopes[s].variables

(* C2: a function declared inside a block keeps the scope active at its
   declaration by reference.  When it is called after that scope has been
   left, the scope is still on the chain of the call's scope, and a read of a
   name written in it or in a scope enclosing it succeeds and returns the last
   value written to the nearest such binding before the call. *)
C2_ClosureByReference ==
    (ClosureRead /\ NearestWritten(DefiningScope, ev.name) # NoScope) =>
        /\ DefiningScope \in ChainOf(current_scope)
        /\ ev.out = ""
        /\ ev.scope = NearestWritten(DefiningScope, ev.name)
        /\ ev.val = Val(written[<<ev.scope, ev.name>>])

\* a call made after the block was left has read, in the block's scope, a value
\* that was written only after the function was declared
C2_Witness ==
    /\ ClosureRead
    /\ ev.out = ""
    /\ ev.scope = DefiningScope
    /\ <<ev.scope, ev.name>> \notin DOMAIN captured[TopCall.name]
    /\ ev.val = Val(written[<<ev.scope, ev.name>>])

\* a break sentinel is on its way to the method on top of the control stack
BreakInFlight == sig.kind = "result" /\ sig.val = BreakStatement

\* the method on top is a while loop whose body is run by another while loop
InnerLoopOnTop ==
    /\ Len(ctl) >= 2
    /\ Top.kind = "while"
    /\ ctl[Len(ctl) - 1].kind = "while"

(* C3: a break yielded inside an if in the body of a while loop nested in
   another while loop ends the inner loop only.  While the sentinel is on its
   way no statement is executed; the if hands it on unchanged; the inner loop
   pops its iteration scope, ends and yields nothing instead of the sentinel;
   the outer loop, receiving nothing, stays in progress in its own iteration
   scope and goes on with its body. *)
C3_BreakEndsInnerLoopOnly ==
    [][/\ BreakInFlight =>
            /\ fuel' = fuel
            /\ Top.kind = "if" =>
                  /\ sig' = sig
                  /\ ctl' = Pop(ctl)
                  /\ UNCHANGED <<scopes, current_scope>>
            /\ InnerLoopOnTop =>
                  /\ ctl' = Pop(ctl)
                  /\ sig' = Result(None)
                  /\ current_scope' = ctl[Len(ctl) - 1].scope
       /\ (ev.op = "while_break" /\ sig.kind = "result" /\ Top.kind = "while") =>
            /\ sig' = NoSig
            /\ UNCHANGED <<ctl, current_scope, scopes>>]_vars

\* the inner loop has just consumed a break that an if handed to it, and the
\* outer loop is about to receive the inner loop's empty result
C3_Witness ==
    /\ ev.op = "while_break"
    /\ ev.via = "if_relay"
    /\ Top.kind = "while"
    /\ sig = Result(None)
    /\ current_scope = Top.scope

\* the number of ancestors of scope s
Ancestors(s) == Cardinality(ChainOf(s)) - 1

\* a reference with more parent:: markers than the active scope has ancestors
\* faults with ScopeDepthExceeded and writes nothing, in a write and in a read
DepthExceededFaults ==
    /\ \A l \in Levels, n \in Assigned, v \in Values, d \in BOOLEAN :
          (ScopedAssignment(l, n, v, d) /\ l > Ancestors(current_scope)) =>
              /\ sig' = Fault("ScopeDepthExceeded")
              /\ scopes' = scopes
    /\ \A l \in Levels, n \in Assigned :
          ((Display(Scoped(l, n)) \/ ReturnStatement(Scoped(l, n)))
             /\ l > Ancestors(current_scope)) =>
              /\ sig' = Fault("ScopeDepthExceeded")
              /\ scopes' = scopes

\* the write stores v as the parent's binding of n and changes no other scope
WritesParent(n, v) ==
    /\ sig'.kind # "fault"
    /\ scopes'[scopes[current_scope].parent].variables[n] = v
    /\ OthersUnchanged(scopes[current_scope].parent)

(* C4 as stated: with the active scope C below a scope B, every write to
   parent::x, declaring or not, stores the value as B's binding of x and
   leaves C and every other scope unchanged; a reference with more parent::
   markers than the active scope has ancestors faults with ScopeDepthExceeded
   and writes to no scope. *)
C4_AsStated ==
    [][/\ \A n \in Assigned, v \in Values, d \in BOOLEAN :
             (ScopedAssignment(1, n, v, d) /\ Ancestors(current_scope) >= 1) =>
                 WritesParent(n, v)
       /\ DepthExceededFaults]_vars

(* C4 amended: with the active scope C below a scope B, a write to parent::x
   stores the value as B's binding of x and leaves C and every other scope
   unchanged, when the write has no Set or C does not bind x; a Set parent::x
   while C binds x faults with AmbiguousShadowedDeclaration and writes to no
   scope.  A reference with more parent:: markers than the active scope has
   ancestors faults with ScopeDepthExceeded and writes to no scope. *)
C4_ScopedWrite ==
    [][/\ \A n \in Assigned, v \in Values, d \in BOOLEAN :
             (ScopedAssignment(1, n, v, d) /\ Ancestors(current_scope) >= 1) =>
                 IF d /\ has_variable(scopes, current_scope, n)
                 THEN /\ sig' = Fault("AmbiguousShadowedDeclaration")
                      /\ scopes' = scopes
                 ELSE WritesParent(n, v)
       /\ DepthExceededFaults]_vars

\* with scopes root -> B -> C and C active, a write to parent::x has just stored
\* a value in B while C keeps its own, different binding of x
C4_Witness ==
    /\ ev.op = "scoped_write" /\ ev.out = ""
    /\ ev.at = current_scope
    /\ ev.scope = scopes[current_scope].parent
    /\ scopes[ev.scope].parent = global_scope
    /\ has_variable(scopes, current_scope, ev.name)
    /\ scopes[ev.scope].variables[ev.name] = ev.val.v
    /\ scopes[current_scope].variables[ev.name] # ev.val.v

(* C5: a return executed at any depth of nested if, while and block constructs
   inside a function body ends that call at once.  While the FunctionReturn is
   on its way no statement is executed; a block, if or loop it passes is left
   without consuming it or changing its value and without touching the call
   stack; the innermost call in progress catches it, and only that call's
   frame is popped: the carried value becomes the result handed to the
   caller. *)
C5_ReturnUnwindsToInnermostCall ==
    [][(sig.kind = "return" /\ call_stack # <<>>) =>
          /\ fuel' = fuel
          /\ Top.kind \in {"block", "if", "while"} =>
                /\ sig'.kind = "return"
                /\ sig'.val = sig.val
                /\ ctl' = Pop(ctl)
                /\ call_stack' = call_stack
          /\ Top.kind = "call" =>
                /\ sig' = Result(sig.val)
                /\ ctl' = Pop(ctl)
                /\ call_stack' = Pop(call_stack)]_vars

\* a recursive invocation has just ended by a return that passed at least two
\* nested constructs, and the caller's invocation, still in progress, is about
\* to receive the returned value
C5_Witness ==
    /\ ev.op = "call_exit" /\ ev.via = "return"
    /\ ev.hops >= 2
    /\ ev.val.t = "val"
    /\ sig = Result(ev.val)
    /\ call_stack # <<>>
    /\ TopCall.name = ev.name
    /\ Top.kind = "block"

\* the calls in progress, as positions of the control stack
CallFrames == {i \in 1..Len(ctl) : ctl[i].kind = "call"}

(* C6: for every call that passes the checks of callFunction, a frame is
   pushed on the call stack and the caller's active scope is remembered; the
   call stack holds exactly one frame per call in progress; and on every way
   out of the call (the body's normal end, a return caught, a fault passing
   through) exactly that frame is popped and the active scope becomes the
   remembered caller's scope again, whatever scope the body left active, while
   no scope's content is changed by the exit. *)
C6_CallFrameAndScopeRestored ==
    [][/\ Cardinality(CallFrames) = Len(call_stack)
       /\ \A f \in FuncNames, as \in ArgLists :
             (CallStatement(f, as) /\ CallFault(f, as) = "") =>
                 /\ Len(call_stack') = Len(call_stack) + 1
                 /\ Len(ctl') = Len(ctl) + 1
                 /\ ctl'[Len(ctl')].kind = "call"
                 /\ ctl'[Len(ctl')].prev = current_scope
       /\ Top.kind = "call" =>
             \/ /\ Len(ctl') > Len(ctl)
                /\ SubSeq(ctl', 1, Len(ctl)) = ctl
                /\ call_stack' = call_stack
             \/ /\ ctl' = Pop(ctl)
                /\ call_stack' = Pop(call_stack)
                /\ current_scope' = Top.prev
                /\ scopes' = scopes
             \/ UNCHANGED <<ctl, call_stack, current_scope>>]_vars

\* a call has just been left by a return or a fault that skipped the pop of a
\* block or loop scope inside the body: the scope active at the exit was a
\* child of the call's scope, and the caller's scope is active again
C6_Witness ==
    /\ ev.op \in {"call_exit", "call_fault"}
    /\ ev.hops >= 1
    /\ current_scope = ev.scope
    /\ ev.at # current_scope
    /\ scopes[ev.at].parent # current_scope
    /\ scopes[scopes[ev.at].parent].parent = functions[ev.name].scope
    /\ Exited(scopes[ev.at].parent)
    /\ Cardinality(CallFrames) = Len(call_stack)

\* the control-stack frame of the innermost call in progress
TopCallFrame == ctl[CHOOSE i \in CallFrames : \A j \in CallFrames : j <= i]

\* the last step read the plain identifier ev.name inside a call
ReadInCall ==
    /\ ev.op \in {"return", "display"}
    /\ ev.name # "" /\ ev.levels = 0
    /\ call_stack # <<>>

\* name is bound on the scope chain of the caller of the innermost call, but
\* neither on the chain of the function's defining scope nor in a scope
\* created since the call began
BoundInCallerOnly(name) ==
    /\ \E s \in ChainOf(TopCallFrame.prev) : has_variable(scopes, s, name)
    /\ \A s \in ChainOf(DefiningScope) : ~has_variable(scopes, s, name)
    /\ \A s \in ChainOf(ev.at) : s >= TopCall.scope => ~has_variable(scopes, s, name)

(* C7: every call that passes the checks executes in a new scope whose parent
   is the scope that was active when the function was declared, whatever scope
   the caller is in; the new scope binds exactly the parameters, each to the
   argument at its position, and marks each as a parameter; no existing scope
   is changed.  Inside the call, a read of a name bound only on the caller's
   scope chain faults with UndefinedVariable. *)
C7_LexicalCallScope ==
    [][/\ \A f \in FuncNames, as \in ArgLists :
             (CallStatement(f, as) /\ CallFault(f, as) = "") =>
                 LET local == Len(scopes) + 1
                     params == functions[f].params IN
                 /\ Len(scopes') = local
                 /\ current_scope' = local
                 /\ scopes'[local].parent = functions[f].scope
                 /\ DOMAIN scopes'[local].variables = {params[i] : i \in 1..Len(params)}
                 /\ \A i \in 1..Len(params) : scopes'[local].variables[params[i]] = as[i]
                 /\ scopes'[local].parameters = {params[i] : i \in 1..Len(params)}
                 /\ SubSeq(scopes', 1, Len(scopes)) = scopes
       /\ (ReadInCall /\ BoundInCallerOnly(ev.name)) => ev.out = "UndefinedVariable"]_vars

\* inside a call, a read of a name that the caller's scope binds, but no scope
\* visible from the function's declaration, has just faulted
C7_Witness ==
    /\ ReadInCall
    /\ BoundInCallerOnly(ev.name)
    /\ ev.out = "UndefinedVariable"
    /\ has_variable(scopes, TopCallFrame.prev, ev.name)
    /\ TopCallFrame.prev # DefiningScope

\* the body of the innermost call has ended, by coming to its end or by a
\* return, and callFunction is about to produce the call's result
BodyEnded == Top.kind = "call" /\ sig.kind \in {"result", "return"}

(* C8 as stated: when the body of a call completes without a return, the
   call's result is what the last statement executed in the body yielded; when
   a return is caught, the result is the value the return carried. *)
C8_AsStated ==
    [][BodyEnded =>
          /\ sig'.kind = "result"
          /\ sig'.val = IF sig.kind = "return" THEN sig.val ELSE sig.last]_vars

(* C8 amended: when the body of a call completes without a return, the call's
   result is none, whatever the last statement executed in the body yielded;
   when a return is caught, the result is the value the return carried. *)
C8_CallResult ==
    [][BodyEnded =>
          /\ sig'.kind = "result"
          /\ sig'.val = IF sig.kind = "return" THEN sig.val ELSE None]_vars

\* a call whose body ended without a return, after a last statement that
\* yielded a value, has just produced no result
C8_Witness ==
    /\ ev.op = "call_exit" /\ ev.via = "result"
    /\ ev.last.t = "val"
    /\ ev.val = None
    /\ sig = Result(None)

\* what a faulting call leaves alone: no frame of either stack is pushed, the
\* flag stays clear and no scope is created, changed or made active
CallLeavesNoTrace ==
    /\ ~skip_next_block_scope'
    /\ UNCHANGED <<ctl, call_stack, current_scope, scopes, functions, output_lines>>

(* C9: a call of a name that is not in the function registry faults with
   UnknownFunction, and a call of a registered function with a number of
   arguments other than its number of parameters faults with ArityMismatch;
   in both cases no call frame is pushed, the body is not entered, the
   scope-suppression flag is not set and the active scope and all scopes are
   unchanged. *)
C9_RejectedCall ==
    [][\A f \in FuncNames, as \in ArgLists :
          CallStatement(f, as) =>
             /\ f \notin DOMAIN functions =>
                   /\ sig' = Fault("UnknownFunction")
                   /\ CallLeavesNoTrace
             /\ (f \in DOMAIN functions /\ Len(functions[f].params) # Len(as)) =>
                   /\ sig' = Fault("ArityMismatch")
                   /\ CallLeavesNoTrace]_vars

\* inside a call in progress, a call with the wrong number of arguments has
\* just faulted and left both stacks, the flag and the active scope as they were
C9_Witness ==
    /\ ev.op = "call" /\ ev.out = "ArityMismatch"
    /\ sig = Fault("ArityMismatch")
    /\ Len(ev.args) # Len(functions[ev.name].params)
    /\ call_stack # <<>>
    /\ Cardinality(CallFrames) = Len(call_stack)
    /\ current_scope = ev.at
    /\ ~skip_next_block_scope

\* the parameter list names some parameter twice
Repeats(params) == Cardinality({params[i] : i \in 1..Len(params)}) < Len(params)

(* C10: a function declaration faults with DuplicateFunction when the name is
   already registered, and otherwise with DuplicateParameter when a parameter
   name repeats; in both cases the registry is unchanged.  Otherwise it
   registers the parameters, the body and the scope active at the declaration
   as the defining scope.  No step ever removes or replaces a registered
   function. *)
C10_DeclareFunction ==
    [][/\ \A f \in FuncNames, ps \in ParamLists, b \in Bodies :
             FunctionDeclaration(f, ps, b) =>
                IF f \in DOMAIN functions
                THEN sig' = Fault("DuplicateFunction") /\ functions' = functions
                ELSE IF Repeats(ps)
                THEN sig' = Fault("DuplicateParameter") /\ functions' = functions
                ELSE /\ sig'.kind # "fault"
                     /\ DOMAIN functions' = DOMAIN functions \cup {f}
                     /\ functions'[f] = [params |-> ps, body |-> b, scope |-> current_scope]
       /\ \A g \in DOMAIN functions :
             g \in DOMAIN functions' /\ functions'[g] = functions[g]]_vars

\* a second declaration of a registered name, made in another scope, has just
\* faulted, and the registry still holds the first declaration's defining scope
C10_Witness ==
    /\ ev.op = "function" /\ ev.out = "DuplicateFunction"
    /\ sig = Fault("DuplicateFunction")
    /\ ev.name \in DOMAIN functions
    /\ functions[ev.name].scope # ev.at

\* s is the nearest scope on the chain of the active scope that binds name
NearestBinding(s, name) ==
    /\ s \in ChainOf(current_scope)
    /\ has_variable(scopes, s, name)
    /\ \A o \in ChainOf(current_scope) \ ChainOf(s) : ~has_variable(scopes, o, name)

\* the step changes the binding of name in scope s to v and nothing else
OnlyBindingChanged(s, name, v) ==
    /\ Len(scopes') = Len(scopes)
    /\ OthersUnchanged(s)
    /\ scopes'[s].parent = scopes[s].parent
    /\ scopes'[s].parameters = scopes[s].parameters
    /\ DOMAIN scopes'[s].variables = DOMAIN scopes[s].variables
    /\ scopes'[s].variables[name] = v
    /\ \A o \in DOMAIN scopes[s].variables :
          o # name => scopes'[s].variables[o] = scopes[s].variables[o]

(* C11: a plain reassignment of a name (no Set, no parent:: marker) updates the
   binding of the name in the nearest scope, from the active scope towards the
   root, that already binds it, and changes no other binding in any scope;
   when no scope on that chain binds the name it faults with
   UndeclaredAssignment and no scope is changed. *)
C11_Reassignment ==
    [][\A n \in Assigned, v \in Values :
          ReassignVariable(n, v) =>
             IF \E s \in ChainOf(current_scope) : has_variable(scopes, s, n)
             THEN /\ sig'.kind # "fault"
                  /\ \A s \in ChainOf(current_scope) :
                        NearestBinding(s, n) => OnlyBindingChanged(s, n, v)
             ELSE /\ sig' = Fault("UndeclaredAssignment")
                  /\ scopes' = scopes]_vars

\* a reassignment made two scopes below has just updated the nearest binding,
\* in an ancestor of the active scope, while a binding of the same name further
\* out keeps another value
C11_Witness ==
    /\ ev.op = "reassign" /\ ev.out = ""
    /\ ev.at = current_scope
    /\ ev.scope # current_scope
    /\ ev.scope \in ChainOf(current_scope)
    /\ scopes[ev.scope].variables[ev.name] = ev.val.v
    /\ \E o \in ChainOf(scopes[ev.scope].parent) :
          /\ has_variable(scopes, o, ev.name)
          /\ scopes[o].variables[ev.name] # ev.val.v

\* the scope `levels` parent links above the active scope, if there is one
IsTarget(s, levels) ==
    /\ s \in ChainOf(current_scope)
    /\ Cardinality(ChainOf(current_scope)) - Cardinality(ChainOf(s)) = levels

\* the scopes from the active scope up to, but without, scope s
Below(s) == ChainOf(current_scope) \ ChainOf(s)

\* Set parent::...::n = v towards target s: rejected exactly when `shadowed`
\* holds, leaving every scope unchanged; accepted otherwise, binding n in s
DeclaresUnless(shadowed, s, n, v) ==
    IF shadowed
    THEN /\ sig' = Fault("AmbiguousShadowedDeclaration")
         /\ scopes' = scopes
    ELSE /\ sig'.kind # "fault"
         /\ scopes'[s].variables[n] = v
         /\ OthersUnchanged(s)

(* C12 as stated: a declaration through an explicit-parent target is rejected
   with AmbiguousShadowedDeclaration exactly when some scope strictly between
   the active scope and the resolved target scope binds the name; a binding in
   the active scope itself or in the target scope does not cause the
   rejection; a rejected declaration leaves the target scope unchanged. *)
C12_AsStated ==
    [][\A l \in Levels, n \in Assigned, v \in Values, s \in 1..Len(scopes) :
          (ScopedAssignment(l, n, v, TRUE) /\ IsTarget(s, l)) =>
              DeclaresUnless(\E o \in Below(s) \ {current_scope} :
                                 has_variable(scopes, o, n),
                             s, n, v)]_vars

(* C12 amended: a declaration through an explicit-parent target is rejected
   with AmbiguousShadowedDeclaration exactly when the active scope itself or
   some scope between it and the resolved target scope binds the name; a
   binding in the target scope does not cause the rejection; a rejected
   declaration leaves every scope unchanged, an accepted one binds the name in
   the target scope and changes no other scope. *)
C12_ShadowGuard ==
    [][\A l \in Levels, n \in Assigned, v \in Values, s \in 1..Len(scopes) :
          (ScopedAssignment(l, n, v, TRUE) /\ IsTarget(s, l)) =>
              DeclaresUnless(\E o \in Below(s) : has_variable(scopes, o, n),
                             s, n, v)]_vars

\* a Set parent::parent::x has just been rejected because the scope between the
\* active scope and the target binds x, while the active scope does not
C12_Witness ==
    /\ ev.op = "scoped_declare" /\ ev.out = "AmbiguousShadowedDeclaration"
    /\ sig = Fault("AmbiguousShadowedDeclaration")
    /\ ev.at = current_scope
    /\ ~has_variable(scopes, current_scope, ev.name)
    /\ ev.scope \in ChainOf(current_scope)
    /\ \E o \in Below(ev.scope) \ {current_scope} : has_variable(scopes, o, ev.name)

\* the integer quotient of a by b (b # 0) truncated towards zero
TruncatedQuotient(a, b) ==
    IF (a < 0) = (b < 0) THEN Abs(a) \div Abs(b) ELSE -(Abs(a) \div Abs(b))

\* a term on two integer operands has been evaluated
IntegerTermDone ==
    /\ calc.fn = "term" /\ calc.done
    /\ calc.left.t = "int" /\ calc.right.t = "int"

(* C13 as stated: for every integer left operand a, negative values included,
   and every nonzero integer right operand b, a / b is the integer quotient
   truncated towards zero, and 7 % 2 is 1; a zero right operand of / or %
   yields a fault and no value. *)
C13_AsStated ==
    IntegerTermDone =>
        LET a == calc.left.num
            b == calc.right.num IN
        /\ (calc.op \in {"/", "%"} /\ b = 0) => calc.out.fault # ""
        /\ (calc.op = "/" /\ b # 0) => calc.out = Value(IntNum(TruncatedQuotient(a, b)))
        /\ (calc.op = "%" /\ a = 7 /\ b = 2) => calc.out = Value(IntNum(1))

\* m has r rows of c entries each
HasShape(m, r, c) == Len(m) = r /\ \A i \in 1..r : Len(m[i]) = c

\* every row of m is as long as the first (the empty matrix included)
Rectangular(m) == \A i \in 1..Len(m) : Len(m[i]) = Len(m[1])

\* the determinant of a 2x2 matrix, from its definition
Det2(m) == m[1][1].num * m[2][2].num - m[1][2].num * m[2][1].num

\* the fractions x and y add up to the whole number n
SumIs(x, y, n) == x.num * y.den + y.num * x.den = n * x.den * y.den

\* the product of two fractions
Times(x, y) == [t |-> "float", num |-> x.num * y.num, den |-> x.den * y.den]

\* the 2x2 matrices m and r multiply to the identity
IsInverse(m, r) ==
    /\ HasShape(r, 2, 2)
    /\ SumIs(Times(m[1][1], r[1][1]), Times(m[1][2], r[2][1]), 1)
    /\ SumIs(Times(m[1][1], r[1][2]), Times(m[1][2], r[2][2]), 0)
    /\ SumIs(Times(m[2][1], r[1][1]), Times(m[2][2], r[2][1]), 0)
    /\ SumIs(Times(m[2][1], r[1][2]), Times(m[2][2], r[2][2]), 1)

(* C14: invert faults with NotInvertible for every 2x2 matrix whose determinant
   a*d - b*c is exactly zero, faults with UnsupportedDimension for every
   (rectangular) matrix of another shape, and yields a result, the inverse,
   only for a 2x2 matrix with nonzero determinant; a list whose rows differ in
   length yields a fault too; the operand is the same after the operation. *)
C14_Invert ==
    (calc.fn = "invert" /\ calc.done) =>
        LET m == calc.operand IN
        /\ calc.matrix = m
        /\ (HasShape(m, 2, 2) /\ Det2(m) = 0) => calc.out.fault = "NotInvertible"
        /\ (Rectangular(m) /\ ~HasShape(m, 2, 2)) => calc.out.fault = "UnsupportedDimension"
        /\ ~Rectangular(m) => calc.out.fault \in {"UnsupportedDimension", "ValueError"}
        /\ calc.out.fault = "" => /\ HasShape(m, 2, 2)
                                  /\ Det2(m) # 0
                                  /\ IsInverse(m, calc.out.val)
        /\ (HasShape(m, 2, 2) /\ Det2(m) # 0) => calc.out.fault = ""

\* a 2x2 matrix without a zero entry has been refused as singular
C14_Witness ==
    /\ calc.fn = "invert" /\ calc.done
    /\ calc.out.fault = "NotInvertible"
    /\ \A i, j \in 1..2 : calc.operand[i][j].num # 0

\* this step ends a bare function call made as a top-level statement
TopLevelCallEnds ==
    /\ Len(ctl) = 2 /\ Top.kind = "call" /\ Top.flag
    /\ ctl' = Pop(ctl)
    /\ sig'.kind = "result"

\* visitProgram is handed the result of a top-level bare function call
TopLevelCallResult ==
    /\ Len(ctl) = 1 /\ sig.kind = "result" /\ ev.op = "call_exit"

(* C15: when a bare function call executed as a top-level statement yields a
   result v that is not none, the step that ends the call appends the line
   "Result: v" and the program then appends the text of v as a second line;
   when the result is none, neither step appends anything. *)
C15_TopLevelCallLines ==
    [][/\ TopLevelCallEnds =>
            output_lines' = IF sig'.val.t = "val"
                            THEN Append(output_lines, "Result: " \o ToString(sig'.val.v))
                            ELSE output_lines
       /\ TopLevelCallResult =>
            /\ sig.val.t = "val" =>
                  /\ output_lines # <<>>
                  /\ output_lines[Len(output_lines)] = "Result: " \o ToString(sig.val.v)
            /\ sig'.kind = "none"
            /\ output_lines' = IF sig.val.t = "val"
                               THEN Append(output_lines, ToString(sig.val.v))
                               ELSE output_lines]_vars

\* the program `f() { return 1 }  f()` has run: both lines are in the log
C15_Witness ==
    /\ output_lines = <<"Result: 1", "1">>
    /\ Len(ctl) = 1
    /\ Running
    /\ fuel = MaxSteps - 3

\* the sequence s is the beginning of the sequence u
IsPrefix(s, u) == Len(s) <= Len(u) /\ SubSeq(u, 1, Len(s)) = s

\* a fault is on its way to the caller of the evaluation, or has reached it
Faulted == sig.kind \in {"fault", "aborted"}

(* C16: the output log only grows by appending at its end: the log before a
   step is a prefix of the log after it.  Once a fault has occurred no
   statement is executed and no line is appended any more; every step the
   fault takes leaves one method in progress, or hands the same fault to the
   caller of the evaluation, where it stays; the lines appended before the
   fault remain in the log in their order. *)
C16_AppendOnlyLog ==
    [][/\ IsPrefix(output_lines, output_lines')
       /\ Faulted =>
            /\ output_lines' = output_lines
            /\ fuel' = fuel
            /\ Faulted'
            /\ sig'.err = sig.err
            /\ sig.kind = "fault" =>
                  \/ Len(ctl') = Len(ctl) - 1 /\ sig'.kind = "fault"
                  \/ Len(ctl) = 1 /\ ctl' = ctl /\ sig'.kind = "aborted"]_vars

\* a fault raised inside a nested construct, after two lines were appended, has
\* reached the caller of the evaluation
C16_Witness ==
    /\ sig.kind = "aborted"
    /\ sig.hops >= 1
    /\ Len(output_lines) = 2

(* C17 as stated: a bare x++ / x-- on a name bound to a number in the scope
   chain replaces that binding with the value plus / minus one and yields the
   new value, so that a later read of x returns it; on an unbound name it
   faults and changes no binding. *)
C17_AsStated ==
    [][\A n \in Assigned, i \in BOOLEAN :
          Operation(n, i) =>
              LET s == get_variable_scope(scopes, current_scope, n)
                  new == IF i THEN get_variable(scopes, current_scope, n) + 1
                         ELSE get_variable(scopes, current_scope, n) - 1 IN
              IF s = NoScope
              THEN sig'.kind = "fault" /\ scopes' = scopes
              ELSE /\ sig' = Result(Val(new))
                   /\ scopes' = set_variable(scopes, s, n, new, n \in scopes[s].parameters)
                   /\ get_variable(scopes', current_scope, n) = new]_vars

\* this step enters a block / leaves a block at the end of its statements
EntersBlock == Len(ctl') = Len(ctl) + 1 /\ ctl'[Len(ctl')].kind = "block"
LeavesBlock == Running /\ Top.kind = "block" /\ ctl' = Pop(ctl)

\* a call has been set up and is about to enter its body
AboutToEnterBody == Running /\ Top.kind = "call" /\ ev.op = "call"

\* the block frames that run in the scope of a call are the bodies of the
\* calls, one per call that has entered its body
BodyBlocks ==
    \A i \in 1..Len(ctl) :
        /\ (ctl[i].kind = "block" /\ ~ctl[i].flag) =>
              /\ i > 1 /\ ctl[i - 1].kind = "call"
              /\ ctl[i].scope = ctl[i - 1].scope
        /\ (ctl[i].kind = "call" /\ i < Len(ctl)) =>
              ctl[i + 1].kind = "block" /\ ~ctl[i + 1].flag

(* C18: the suppress-scope-push flag set by a call is consumed by exactly the
   body block of that call: the body block runs in the scope the call created
   and clears the flag; every other block (nested in a body, executed after a
   call returned or faulted, or in another or a recursive call) pushes a scope
   of its own at entry and pops it at its end; and the flag is set only in the
   states where a call is about to enter its body. *)
C18_FlagConsumedByBody ==
    [][/\ skip_next_block_scope' <=> AboutToEnterBody'
       /\ BodyBlocks'
       /\ EntersBlock =>
            IF Top.kind = "call"
            THEN /\ skip_next_block_scope /\ ~skip_next_block_scope'
                 /\ current_scope' = Top.scope
                 /\ ctl'[Len(ctl')].scope = Top.scope
                 /\ scopes' = scopes
            ELSE /\ ~skip_next_block_scope
                 /\ scopes' = Append(scopes, Scope(current_scope))
                 /\ current_scope' = Len(scopes')
                 /\ ctl'[Len(ctl')].scope = Len(scopes')
                 /\ ctl'[Len(ctl')].flag
       /\ (LeavesBlock /\ sig'.kind = "result") =>
            /\ scopes' = scopes
            /\ current_scope' = IF Top.flag THEN scopes[Top.scope].parent
                                ELSE current_scope]_vars

\* a block nested in the body of a recursive call has pushed a scope of its own
C18_Witness ==
    /\ Len(ctl) >= 4
    /\ ev.op = "block_enter"
    /\ Top.kind = "block" /\ Top.flag
    /\ ctl[Len(ctl) - 2].kind = "call"
    /\ Len(call_stack) = 2
    /\ current_scope # ctl[Len(ctl) - 2].scope
    /\ scopes[current_scope].parent = ctl[Len(ctl) - 2].scope

\* this step starts an iteration of a while loop
IterationStarts ==
    /\ ev'.op \in {"while_enter", "while_next"}
    /\ sig'.kind = "none"
    /\ ctl'[Len(ctl')].kind = "while"

\* this step ends a while loop: by a false condition, a break or a result
WhileLoopEnds ==
    /\ Top.kind = "while"
    /\ ctl' = Pop(ctl)
    /\ sig'.kind = "result"

(* C19: each iteration of a while loop runs in a fresh (empty) child scope of
   the scope that was active at loop entry, created without changing any
   existing scope; whenever the loop ends by a false condition, by a break or
   by an early result that is not none, the active scope is again the scope of
   loop entry and no name resolves to the scope of an iteration; a declaration
   in the body faults with DuplicateDeclaration only when the same iteration
   has declared the name already. *)
C19_WhileIterationScope ==
    [][/\ IterationStarts =>
            LET loop == ctl'[Len(ctl')]
                entry == IF ev'.op = "while_enter" THEN current_scope ELSE Top.prev IN
            /\ loop.prev = entry
            /\ scopes' = Append(scopes, Scope(entry))
            /\ current_scope' = Len(scopes')
            /\ loop.scope = current_scope'
       /\ ((Running /\ Top.kind = "while") =>
             current_scope = Top.scope /\ scopes[Top.scope].parent = Top.prev)
       /\ WhileLoopEnds =>
            /\ ev'.op \in {"while_exit", "while_break", "while_result"}
            /\ current_scope' = Top.prev
            /\ scopes' = scopes
            /\ \A n \in Names : get_variable_scope(scopes', current_scope', n) # Top.scope
       /\ (Top.kind = "while" /\ ev'.op = "declare" /\ ev'.out = "DuplicateDeclaration") =>
            has_variable(scopes, Top.scope, ev'.name)]_vars

\* a name declared in one iteration has been declared again, without a fault,
\* at the start of the next iteration of the same loop
C19_Witness ==
    /\ ev.op = "declare" /\ ev.via = "while_next" /\ ev.out = ""
    /\ Top.kind = "while"
    /\ \E s \in 1..Len(scopes) :
          /\ s # current_scope
          /\ scopes[s].parent = Top.prev
          /\ has_variable(scopes, s, ev.name)
          /\ ~has_variable(scopes, Top.prev, ev.name)

\* the arena S with the binding of name in scope s set to value
WithBinding(S, s, name, value) ==
    [S EXCEPT ![s].variables = (name :> value) @@ S[s].variables]

\* the nearest scope from s upwards that binds name, NoScope when none does
NearestFrom(s, name) ==
    LET binding == {o \in ChainOf(s) : has_variable(scopes, o, name)} IN
    IF binding = {} THEN NoScope
    ELSE CHOOSE o \in binding : binding \subseteq ChainOf(o)

\* the scope an update of name made from scope s writes: s itself for a
\* declaration, the nearest scope from s upwards that binds name otherwise
UpdateTarget(s, name, is_declaration) ==
    IF is_declaration THEN s ELSE NearestFrom(s, name)

(* C20: in a for loop the initializer runs once, when the loop is entered, and
   stores into the scope enclosing the loop; each execution of the body runs in
   a fresh child scope of the enclosing scope, which is popped before the
   update; after an iteration the update runs only if the condition holds
   then, in the enclosing scope: what it reads and what it writes is resolved
   from the enclosing scope, so a name bound only in the body is undefined for
   it; a break in the body ends the loop without an update, with the enclosing
   scope active again. *)
C20_ForLoopScopes ==
    [][/\ \A n \in Assigned, v \in Values :
            ForLoopIterating(n, v) =>
                /\ scopes' = Append(WithBinding(scopes, current_scope, n, v),
                                    Scope(current_scope))
                /\ current_scope' = Len(scopes')
                /\ ctl'[Len(ctl')].prev = current_scope
                /\ ctl'[Len(ctl')].scope = current_scope'
       /\ \A n \in Assigned, v \in Values :
            ForLoop(n, v) =>
                /\ scopes' = WithBinding(scopes, current_scope, n, v)
                /\ current_scope' = current_scope
       /\ (Top.kind = "for" /\ sig.kind \in {"none", "result"}) =>
            /\ current_scope = Top.scope
            /\ scopes[Top.scope].parent = Top.prev
            /\ ev'.op \notin {"for_init", "for_enter"}
       /\ \A h, a, d \in BOOLEAN, n \in Assigned, e \in UpdateExprs :
            ForIterationEnd(h, a, n, e, d) =>
                LET enclosing == Top.prev
                    target == UpdateTarget(enclosing, n, d)
                    readable == e.k = "lit" \/ NearestFrom(enclosing, e.n) # NoScope
                    value == IF e.k = "lit" THEN e.v
                             ELSE scopes[NearestFrom(enclosing, e.n)].variables[e.n]
                    fresh == IF a THEN <<Scope(enclosing)>> ELSE <<>> IN
                /\ ~h => /\ scopes' = scopes
                         /\ current_scope' = enclosing
                         /\ sig' = Result(None)
                /\ (h /\ (~readable \/ target = NoScope)) =>
                         /\ scopes' = scopes
                         /\ sig'.kind = "fault"
                /\ (h /\ readable /\ target # NoScope) =>
                         /\ target # Top.scope
                         /\ scopes' = WithBinding(scopes, target, n, value) \o fresh
                         /\ current_scope' = IF a THEN Len(scopes') ELSE enclosing
                         /\ sig' = IF a THEN NoSig ELSE Result(None)
       /\ (Top.kind = "for" /\ sig.kind = "result" /\ sig.val.t = "break") =>
            /\ scopes' = scopes
            /\ current_scope' = Top.prev
            /\ ctl' = Pop(ctl)
            /\ sig' = Result(None)]_vars

\* the update of a loop in a block has read a name that the body just left
\* binds and the enclosing scopes do not, and has faulted
C20_Witness ==
    /\ ev.op = "for_update"
    /\ ev.out = "UndefinedVariable"
    /\ has_variable(scopes, ev.at, ev.via)
    /\ current_scope = scopes[ev.at].parent
    /\ current_scope # global_scope

\* an if statement directly in the body of a while loop is handed the result
\* of its body; the body, or the last statement of a body that is a block,
\* yielded the break sentinel
IfBodyYieldedBreak ==
    /\ Len(ctl) >= 2
    /\ Top.kind = "if"
    /\ ctl[Len(ctl) - 1].kind = "while"
    /\ sig.kind = "result"
    /\ (sig.val.t = "break" \/ sig.last.t = "break")

(* C21 as stated: an if statement returns the result of the body it executed
   unchanged, so that a break sentinel yielded inside the body, whether the
   body is a single statement or a block, reaches the enclosing loop: the if
   hands the sentinel to the loop. *)
C21_AsStated ==
    [][IfBodyYieldedBreak =>
          /\ ctl' = Pop(ctl)
          /\ sig'.kind = "result"
          /\ sig'.val = BreakStatement]_vars

\* the scopes the interpreter holds on to: the active one, the defining scope
\* of every function and the scope of every call in progress
HeldScopes ==
    {current_scope} \cup {functions[f].scope : f \in DOMAIN functions} \cup CallScopes

\* every scope but the global one has a parent that was created before it, so
\* that every parent chain is finite and without a cycle; the global scope is
\* the only one without a parent
ChainsWellFounded ==
    /\ scopes[global_scope].parent = NoScope
    /\ \A s \in 2..Len(scopes) : scopes[s].parent \in 1..(s - 1)

\* this step attempts pop_env
PopAttempt ==
    /\ Running
    /\ \/ Top.kind = "block" /\ Top.flag
       \/ Top.kind \in {"while", "for"}

(* C22: in every reachable state the parent chain of the active scope, of
   every function's defining scope and of every call frame's scope is finite
   and acyclic and ends at the one global scope, which has no parent; no step
   discards a scope or changes a parent link, an attempt to pop the global
   scope faults and leaves it active, and there is always an active scope. *)
C22_ScopeChains ==
    [][/\ ChainsWellFounded'
       /\ HeldScopes' \subseteq 1..Len(scopes')
       /\ \A s \in HeldScopes' :
             LET RECURSIVE Root(_)
                 Root(o) == IF scopes'[o].parent = NoScope THEN o
                            ELSE Root(scopes'[o].parent) IN
             Root(s) = global_scope
       /\ Len(scopes') >= Len(scopes)
       /\ \A s \in 1..Len(scopes) : scopes'[s].parent = scopes[s].parent
       /\ (PopAttempt /\ current_scope = global_scope) =>
             /\ sig'.kind = "fault"
             /\ current_scope' = global_scope]_vars

\* a call is in progress whose scope hangs below the scope of a block, where
\* its function was declared, and a block entered in its body is active
C22_Witness ==
    /\ call_stack # <<>>
    /\ \E f \in DOMAIN functions : functions[f].scope # global_scope
    /\ Cardinality(ChainOf(current_scope)) >= 4
    /\ current_scope \notin CallScopes

\* the float x has no fractional part
WholeFloat(x) == x.t = "float" /\ x.num % x.den = 0

(* C23 as stated: whenever a float whose fractional part is exactly zero is
   stored into a binding without a declared type, by a plain declaration, by a
   plain reassignment or by an explicit-parent write, the value stored is the
   integer with the same value; a float with a nonzero fraction stored without
   a declared type, and a float stored with the declared type float, is stored
   as the float it is. *)
C23_AsStated ==
    (calc.fn = "store" /\ calc.done /\ calc.value.t = "float") =>
        /\ (calc.declared_type = "" /\ WholeFloat(calc.value)) =>
              /\ calc.out.t = "int"
              /\ calc.out.num * calc.value.den = calc.value.num
        /\ (calc.declared_type = "" /\ ~WholeFloat(calc.value)) =>
              calc.out = calc.value
        /\ calc.declared_type = "float" => calc.out = calc.value

\* name is marked as a parameter in a scope above s, and not in s itself
ParameterOfAncestorOnly(s, name) ==
    /\ name \notin scopes[s].parameters
    /\ \E o \in ChainOf(s) \ {s} : name \in scopes[o].parameters

(* C24 as stated: a plain declaration of a name n (outside a for initializer
   or update) faults with ParameterRedeclaration when n is bound as a
   parameter in the current scope, and leaves the parameter's value unchanged;
   when n is a parameter only of an ancestor scope and the current scope does
   not bind n, the declaration is accepted: it binds n in the current scope
   and shadows the parameter, which keeps its value. *)
C24_AsStated ==
    [][\A n \in Assigned, v \in Values :
          DeclareVariable(n, v) =>
              /\ n \in scopes[current_scope].parameters =>
                    /\ sig' = Fault("ParameterRedeclaration")
                    /\ scopes' = scopes
              /\ (ParameterOfAncestorOnly(current_scope, n)
                  /\ ~has_variable(scopes, current_scope, n)) =>
                    /\ sig' = Result(None)
                    /\ scopes' = [scopes EXCEPT ![current_scope].variables =
                                                   (n :> v) @@ @]]_vars

\* a scope above s binds name
BoundAbove(s, name) ==
    \E o \in ChainOf(s) \ {s} : has_variable(scopes, o, name)

(* C25: a non-declaring write parent::...::x = v whose resolved scope exists
   and has no binding for x does not fault: it creates the binding of x with
   value v in exactly the resolved scope, also when a scope further up binds
   x already, and leaves every other scope (that ancestor included) as it
   was. *)
C25_ScopedWriteCreates ==
    [][\A l \in Levels, n \in Assigned, v \in Values, s \in 1..Len(scopes) :
          (/\ ScopedAssignment(l, n, v, FALSE)
           /\ IsTarget(s, l)
           /\ ~has_variable(scopes, s, n)) =>
              /\ sig' = Result(None)
              /\ scopes' = WithBinding(scopes, s, n, v)
              /\ has_variable(scopes', s, n)
              /\ OthersUnchanged(s)]_vars

\* a scoped write has just created x in a scope between the global scope and
\* the active one, the global scope binding x to another value: three
\* statements before it bound x globally and entered two scopes, so the
\* written scope cannot have bound x before
C25_Witness ==
    /\ ev.op = "scoped_write"
    /\ ev.out = ""
    /\ fuel = MaxSteps - 4
    /\ ev.scope \notin {global_scope, current_scope}
    /\ ev.scope \in ChainOf(current_scope)
    /\ BoundAbove(ev.scope, ev.name)
    /\ has_variable(scopes, ev.scope, ev.name)
    /\ \A o \in ChainOf(ev.scope) \ {ev.scope} :
          has_variable(scopes, o, ev.name) =>
              scopes[o].variables[ev.name] # scopes[ev.scope].variables[ev.name]

\* a FunctionReturn is in flight, or has left visitProgram, with no call active
TopLevelReturn ==
    /\ sig.kind \in {"return", "unhandled_return"}
    /\ call_stack = <<>>

(* C26: a return statement executed while no function call is active is
   caught nowhere.  Executing it (its expression evaluating without fault)
   raises the return unwind and appends no line; from then on every step
   keeps the unwind, with its value, in flight or ended as an unhandled
   return: no statement is executed, no call becomes active, no line is
   appended, no binding changes, and the evaluation never completes to hand
   back the output sequence. *)
C26_TopLevelReturnUnhandled ==
    [][/\ \A e \in Exprs :
             (ReturnStatement(e) /\ call_stack = <<>> /\ ExprFault(e) = "") =>
                 /\ TopLevelReturn'
                 /\ sig'.kind = "return"
                 /\ output_lines' = output_lines
       /\ TopLevelReturn =>
             /\ TopLevelReturn'
             /\ sig'.val = sig.val
             /\ fuel' = fuel
             /\ output_lines' = output_lines
             /\ scopes' = scopes
             /\ Len(ctl') <= Len(ctl)
             /\ (Top.kind = "prog") => sig'.kind = "unhandled_return"]_vars

\* a return executed inside a block with no call active has ended the
\* evaluation as an unhandled return, after a line was appended and with
\* statements left to execute
C26_Witness ==
    /\ sig.kind = "unhandled_return"
    /\ call_stack = <<>>
    /\ sig.hops >= 1
    /\ output_lines # <<>>
    /\ fuel > 0

====
